---- MODULE Spec2Model ----
(***************************************************************************)
(* A model of qtsass (src/qtsass/qtsass.py): the conformer chain that      *)
(* rewrites QSS text for the SASS compiler and back, the render hooks the  *)
(* compiler calls, and the compile-and-save / watch-mode control flow.     *)
(* A stylesheet text is a sequence of one-character strings.               *)
(***************************************************************************)
EXTENDS Integers, Sequences, FiniteSets, TLC

VARIABLES
    src,        \* conformers: the text handed to the first conformer call
    cur,        \* conformers: the text after the calls made so far
    ops,        \* conformers: the calls made so far, in order
    hook,       \* render hooks: the call the compiler makes
    rendered,   \* render hooks: what the call returned (NotCalled before it)
    inputFile,  \* run: the input path on disk: Missing, Unreadable or its text
    destFile,   \* run: the destination path on disk: Absent or its text
    stdout,     \* run: the texts printed so far
    log,        \* run: the log records emitted so far
    pc,         \* run: main() is at "start", "watching", "stopping", "exited"
    exitCode,   \* run: the exit status of the process, NotExited while it runs
    handler,    \* run: the observer thread: "idle", "recompiling", "crashed"
    recompile_i, \* run: the i of _recompile, its count of failed attempts
    args,       \* run: the parsed command line (watch, output)
    destDir,    \* run: the output directory: "ok", "missing", "readonly"
    events      \* run: change events dispatched so far

conformVars == <<src, cur, ops>>

hookVars == <<hook, rendered>>

runVars ==
    <<inputFile, destFile, stdout, log, pc, exitCode, handler, recompile_i,
      args, destDir, events>>

vars == <<src, cur, ops, hook, rendered, inputFile, destFile, stdout, log, pc,
          exitCode, handler, recompile_i, args, destDir, events>>

(***************************************************************************)
(* Bounds of the model.                                                    *)
(***************************************************************************)
MaxFrags == 5

(***************************************************************************)
(* Python string primitives, as the code uses them.                        *)
(***************************************************************************)

\* s[i:] starts with pat (i is 1-based)
StartsWithAt(s, i, pat) ==
    /\ i >= 1
    /\ i + Len(pat) - 1 <= Len(s)
    /\ \A k \in 1..Len(pat) : s[i + k - 1] = pat[k]

\* str.find: the least index >= from where pat occurs in s, 0 when there is none
RECURSIVE Find(_, _, _)
Find(s, pat, from) ==
    IF from + Len(pat) - 1 > Len(s) THEN 0
    ELSE IF StartsWithAt(s, from, pat) THEN from
    ELSE Find(s, pat, from + 1)

\* pat occurs somewhere in s
Contains(s, pat) == Find(s, pat, 1) # 0

\* str.replace(old, new, count): left to right, non-overlapping occurrences of a
\* non-empty old; count = -1 replaces them all
RECURSIVE StrReplaceN(_, _, _, _)
StrReplaceN(s, old, new, count) ==
    LET p == Find(s, old, 1) IN
    IF count = 0 \/ p = 0 THEN s
    ELSE SubSeq(s, 1, p - 1) \o new
         \o StrReplaceN(SubSeq(s, p + Len(old), Len(s)), old, new,
                        IF count < 0 THEN count ELSE count - 1)

\* str.replace(old, new)
StrReplace(s, old, new) == StrReplaceN(s, old, new, -1)

(***************************************************************************)
(* The literals of the two conformers.                                     *)
(***************************************************************************)
COLON == <<":">>
QSS_NOT == <<":", "!">>
CSS_NOT == <<":", "_", "q", "n", "o", "t", "_">>
QNOT == <<"_", "q", "n", "o", "t", "_">>
QCOLON == <<"_", "q", "c", "o", "l", "o", "n", "_">>

(***************************************************************************)
(* NotConformer                                                            *)
(***************************************************************************)
\* a to_css that is not anchored to the colon: every "!" becomes "_qnot_"
NotConformer_to_css_unanchored(qss) == StrReplace(qss, <<"!">>, QNOT)

NotConformer_to_css(qss) == StrReplace(qss, QSS_NOT, CSS_NOT)

NotConformer_to_qss(css) == StrReplace(css, CSS_NOT, QSS_NOT)

(***************************************************************************)
(* NestedSelectorsConformer                                                *)
(* pattern = ::[A-Za-z0-9-_!]+((?:\:[A-Za-z0-9-_!]+)+)                     *)
(***************************************************************************)
Letters ==
    {"a", "b", "c", "d", "e", "f", "g", "h", "i", "j", "k", "l", "m", "n",
     "o", "p", "q", "r", "s", "t", "u", "v", "w", "x", "y", "z",
     "A", "B", "C", "D", "E", "F", "G", "H", "I", "J", "K", "L", "M", "N",
     "O", "P", "Q", "R", "S", "T", "U", "V", "W", "X", "Y", "Z"}

Digits == {"0", "1", "2", "3", "4", "5", "6", "7", "8", "9"}

\* the character class [A-Za-z0-9-_!]
IdentChars == Letters \cup Digits \cup {"-", "_", "!"}

\* [A-Za-z0-9-_!]+ is greedy: the index just after the longest run of class
\* characters that starts at i (i itself when there is none)
RECURSIVE IdentRunEnd(_, _)
IdentRunEnd(s, i) ==
    IF i <= Len(s) /\ s[i] \in IdentChars THEN IdentRunEnd(s, i + 1) ELSE i

\* (?:\:[A-Za-z0-9-_!]+)* from i, greedy: the index just after the last
\* colon-identifier segment (i itself when there is none)
RECURSIVE SuffixEnd(_, _)
SuffixEnd(s, i) ==
    IF i <= Len(s) /\ s[i] = ":" /\ IdentRunEnd(s, i + 1) > i + 1
    THEN SuffixEnd(s, IdentRunEnd(s, i + 1))
    ELSE i

\* a pattern that asks for two or more colon-identifier segments
MatchAt_two_or_more(s, i) ==
    LET e1 == IdentRunEnd(s, i + 2)
        e2 == SuffixEnd(s, e1)
    IN  [ok |-> /\ StartsWithAt(s, i, <<":", ":">>)
                /\ e1 > i + 2
                /\ e2 > e1
                /\ e2 > IdentRunEnd(s, e1 + 1),
         gstart |-> e1,
         end |-> e2]

\* pattern.match at i: the leading "::identifier" ends before gstart, the
\* captured group is s[gstart .. end - 1]
MatchAt(s, i) ==
    LET e1 == IdentRunEnd(s, i + 2)
        e2 == SuffixEnd(s, e1)
    IN  [ok |-> /\ StartsWithAt(s, i, <<":", ":">>)
                /\ e1 > i + 2
                /\ e2 > e1,
         gstart |-> e1,
         end |-> e2]

\* the [start, gstart, end) spans of pattern.finditer(s) from index i
RECURSIVE MatchSpans(_, _)
MatchSpans(s, i) ==
    IF i > Len(s) THEN <<>>
    ELSE LET m == MatchAt(s, i) IN
         IF m.ok
         THEN <<[start |-> i, gstart |-> m.gstart, end |-> m.end]>>
              \o MatchSpans(s, m.end)
         ELSE MatchSpans(s, i + 1)

\* pattern.findall(s): the captured group of every match, in order
FindAll(s) ==
    LET spans == MatchSpans(s, 1) IN
    [k \in 1..Len(spans) |-> SubSeq(s, spans[k].gstart, spans[k].end - 1)]

\* the loop of to_css: each captured group replaces its first textual
\* occurrence in the text conformed so far
RECURSIVE ApplyMatches(_, _)
ApplyMatches(conformed, matches) ==
    IF matches = <<>> THEN conformed
    ELSE ApplyMatches(
             StrReplaceN(conformed, Head(matches),
                         StrReplace(Head(matches), COLON, QCOLON), 1),
             Tail(matches))

NestedSelectorsConformer_to_css(qss) == ApplyMatches(qss, FindAll(qss))

NestedSelectorsConformer_to_qss(css) == StrReplace(css, QCOLON, COLON)

(***************************************************************************)
(* The registry and the chain.                                             *)
(***************************************************************************)
\* Conformer.__subclasses__() in definition order
conformers == <<"NotConformer", "NestedSelectorsConformer">>

to_css(conformer, text) ==
    IF conformer = "NotConformer" THEN NotConformer_to_css(text)
    ELSE NestedSelectorsConformer_to_css(text)

to_qss(conformer, text) ==
    IF conformer = "NotConformer" THEN NotConformer_to_qss(text)
    ELSE NestedSelectorsConformer_to_qss(text)

RECURSIVE css_conform_from(_, _)
css_conform_from(conformed, k) ==
    IF k > Len(conformers) THEN conformed
    ELSE css_conform_from(to_css(conformers[k], conformed), k + 1)

css_conform(input_str) == css_conform_from(input_str, 1)

RECURSIVE qt_conform_from(_, _)
qt_conform_from(conformed, k) ==
    IF k > Len(conformers) THEN conformed
    ELSE qt_conform_from(to_qss(conformers[k], conformed), k + 1)

qt_conform(input_str) == qt_conform_from(input_str, 1)

(***************************************************************************)
(* Input texts: the strings of the tests and of the documentation, and     *)
(* every concatenation of at most MaxFrags fragments.                      *)
(***************************************************************************)
qss_str ==
    <<"Q", "A", "b", "s", "t", "r", "a", "c", "t", "I", "t", "e", "m", "V",
      "i", "e", "w", ":", ":", "i", "t", "e", "m", ":", "!", "a", "c", "t",
      "i", "v", "e">>

css_str ==
    <<"Q", "A", "b", "s", "t", "r", "a", "c", "t", "I", "t", "e", "m", "V",
      "i", "e", "w", ":", ":", "i", "t", "e", "m", ":", "_", "q", "n", "o",
      "t", "_", "a", "c", "t", "i", "v", "e">>

qss_nostops_str ==
    <<"q", "l", "i", "n", "e", "a", "r", "g", "r", "a", "d", "i", "e", "n",
      "t", "(", "x", "1", ":", " ", "0", ",", " ", "y", "1", ":", " ", "0",
      ",", " ", "x", "2", ":", " ", "0", ",", " ", "y", "2", ":", " ", "0",
      ")">>

css_nostops_str ==
    <<"q", "l", "i", "n", "e", "a", "r", "g", "r", "a", "d", "i", "e", "n",
      "t", "(", "0", ",", " ", "0", ",", " ", "0", ",", " ", "0", ")">>

qss_singleline_str ==
    <<"q", "l", "i", "n", "e", "a", "r", "g", "r", "a", "d", "i", "e", "n",
      "t", "(", "x", "1", ":", " ", "0", ",", " ", "y", "1", ":", " ", "0",
      ",", " ", "x", "2", ":", " ", "0", ",", " ", "y", "2", ":", " ", "0",
      ",", " ", "s", "t", "o", "p", ":", " ", "0", " ", "r", "e", "d", ",",
      " ", "s", "t", "o", "p", ":", " ", "1", " ", "b", "l", "u", "e", ")">>

css_gradient_str ==
    <<"q", "l", "i", "n", "e", "a", "r", "g", "r", "a", "d", "i", "e", "n",
      "t", "(", "0", ",", " ", "0", ",", " ", "0", ",", " ", "0", ",", " ",
      "(", "0", " ", "r", "e", "d", ",", " ", "1", " ", "b", "l", "u", "e",
      ")", ")">>

item_hover_str ==
    <<":", ":", "i", "t", "e", "m", ":", "h", "o", "v", "e", "r">>

item_hover_pressed_str ==
    <<":", ":", "i", "t", "e", "m", ":", "h", "o", "v", "e", "r", ":", "p",
      "r", "e", "s", "s", "e", "d">>

important_str ==
    <<" ", "!", "i", "m", "p", "o", "r", "t", "a", "n", "t">>

repeated_suffix_str ==
    <<"a", ":", "h", "o", "v", "e", "r", " ", "b", ":", ":", "i", "t", "e",
      "m", ":", "h", "o", "v", "e", "r">>

ExampleTexts ==
    {qss_str, css_str, qss_nostops_str, css_nostops_str, qss_singleline_str,
     css_gradient_str, item_hover_str, item_hover_pressed_str, important_str,
     repeated_suffix_str}

Fragments ==
    {<<":">>, <<"!">>, <<"a">>, <<" ">>,
     <<"_", "q", "c", "o", "l", "o", "n">>, QNOT}

RECURSIVE Concat(_)
Concat(fs) == IF fs = <<>> THEN <<>> ELSE Head(fs) \o Concat(Tail(fs))

FragmentTexts ==
    {Concat(fs) : fs \in UNION {[1..n -> Fragments] : n \in 0..MaxFrags}}

Texts == FragmentTexts \cup ExampleTexts

(***************************************************************************)
(* The conformer calls: a forward call (to_css of one conformer, or the    *)
(* whole chain) on the input, then an inverse call (to_qss, or the chain); *)
(* an inverse call may also be made on the input itself.                   *)
(***************************************************************************)
ForwardOps == {"NotConformer.to_css", "NestedSelectorsConformer.to_css",
               "css_conform"}

InverseOps == {"NotConformer.to_qss", "NestedSelectorsConformer.to_qss",
               "qt_conform"}

CanForward == ops = <<>>

CanInverse == ops = <<>> \/ (Len(ops) = 1 /\ ops[1] \in ForwardOps)

Call(name, result) ==
    /\ cur' = result
    /\ ops' = Append(ops, name)
    /\ UNCHANGED <<src, hookVars, runVars>>

NotToCss ==
    /\ CanForward
    /\ Call("NotConformer.to_css", NotConformer_to_css(cur))

NestedToCss ==
    /\ CanForward
    /\ Call("NestedSelectorsConformer.to_css",
            NestedSelectorsConformer_to_css(cur))

CssConform ==
    /\ CanForward
    /\ Call("css_conform", css_conform(cur))

NotToQss ==
    /\ CanInverse
    /\ Call("NotConformer.to_qss", NotConformer_to_qss(cur))

NestedToQss ==
    /\ CanInverse
    /\ Call("NestedSelectorsConformer.to_qss",
            NestedSelectorsConformer_to_qss(cur))

QtConform ==
    /\ CanInverse
    /\ Call("qt_conform", qt_conform(cur))

(***************************************************************************)
(* The render hooks the compiler calls: rgba and qlineargradient.          *)
(* A number is held in hundredths (0.5 is 50, 255.0 is 25500); the model's *)
(* values are the ones binary floating point holds exactly after the       *)
(* multiplication by 100.                                                  *)
(***************************************************************************)
DigitChars == <<"0", "1", "2", "3", "4", "5", "6", "7", "8", "9">>

\* "{}".format(n) of a non-negative int
RECURSIVE FormatInt(_)
FormatInt(n) ==
    IF n < 10 THEN <<DigitChars[n + 1]>>
    ELSE FormatInt(n \div 10) \o <<DigitChars[(n % 10) + 1]>>

\* "{}".format(v) of a non-negative float given in hundredths: 0 is "0.0",
\* 50 is "0.5", 25 is "0.25"
FormatFloat(v) ==
    FormatInt(v \div 100) \o <<".">>
    \o (IF v % 10 = 0 THEN <<DigitChars[((v % 100) \div 10) + 1]>>
        ELSE <<DigitChars[((v % 100) \div 10) + 1], DigitChars[(v % 10) + 1]>>)

\* int(v) of a non-negative float given in hundredths
IntOf(v) == v \div 100

\* int(v * 100)
IntOfTimes100(v) == (v * 100) \div 100

RGBA_OPEN == <<"r", "g", "b", "a", "(">>
COMMA_SPACE == <<",", " ">>
PCT_CLOSE == <<"%", ")">>

\* "rgba({}, {}, {}, {}%)".format(r, g, b, a)
RgbaFormat(r, g, b, a) ==
    RGBA_OPEN \o FormatInt(r) \o COMMA_SPACE \o FormatInt(g) \o COMMA_SPACE
    \o FormatInt(b) \o COMMA_SPACE \o FormatInt(a) \o PCT_CLOSE

\* what a Python function returns when it falls off its end
None == <<"None">>

\* an argument is a sass.SassNumber, a float, or something else (an int)
SassNumberArg(v) == [type |-> "SassNumber", value |-> v]

FloatArg(v) == [type |-> "float", value |-> v]

IntArg(v) == [type |-> "int", value |-> v]

rgba(r, g, b, a) ==
    IF r.type = "SassNumber"
    THEN RgbaFormat(IntOf(r.value), IntOf(g.value), IntOf(b.value),
                    IntOfTimes100(a.value))
    ELSE IF r.type = "float"
    THEN RgbaFormat(IntOf(r.value), IntOf(g.value), IntOf(b.value),
                    IntOfTimes100(a.value))
    ELSE None

\* a sass.SassColor holds four floats
rgba_from_color(color) ==
    rgba(FloatArg(color.r), FloatArg(color.g), FloatArg(color.b),
         FloatArg(color.a))

\* str.rstrip(chars) for a one-character chars
RECURSIVE RStrip(_, _)
RStrip(s, ch) ==
    IF s # <<>> /\ s[Len(s)] = ch THEN RStrip(SubSeq(s, 1, Len(s) - 1), ch)
    ELSE s

GRAD_X1 ==
    <<"q", "l", "i", "n", "e", "a", "r", "g", "r", "a", "d", "i", "e", "n",
      "t", "(", "x", "1", ":">>
GRAD_Y1 == <<",", " ", "y", "1", ":">>
GRAD_X2 == <<",", " ", "x", "2", ":">>
GRAD_Y2 == <<",", " ", "y", "2", ":">>
STOP == <<" ", "s", "t", "o", "p", ":", " ">>

\* the loop over stops[0]: stops_str += " stop: {} {}".format(pos.value, color)
RECURSIVE StopsStr(_)
StopsStr(stops) ==
    IF stops = <<>> THEN <<>>
    ELSE STOP \o FormatFloat(Head(stops).pos) \o <<" ">>
         \o rgba_from_color(Head(stops).color) \o StopsStr(Tail(stops))

qlineargradient(x1, y1, x2, y2, stops) ==
    GRAD_X1 \o FormatFloat(x1) \o GRAD_Y1 \o FormatFloat(y1)
    \o GRAD_X2 \o FormatFloat(x2) \o GRAD_Y2 \o FormatFloat(y2)
    \o <<" ">> \o RStrip(StopsStr(stops), ",") \o <<")">>

MaxStops == 2

Coordinates == {0, 100}

Positions == {0, 50, 100}

Colors ==
    {[r |-> 25500, g |-> 0, b |-> 0, a |-> 100],
     [r |-> 0, g |-> 0, b |-> 25500, a |-> 50]}

Channels == {0, 25500}

Alphas == {0, 50, 100}

StopLists ==
    UNION {[1..n -> [pos : Positions, color : Colors]] : n \in 0..MaxStops}

NoCall == [fn |-> "none"]

NotCalled == <<"NotCalled">>

\* the compiler evaluates a call of qlineargradient
CallQLinearGradient ==
    /\ hook.fn = "qlineargradient"
    /\ rendered = NotCalled
    /\ rendered' = qlineargradient(hook.x1, hook.y1, hook.x2, hook.y2,
                                   hook.stops)
    /\ UNCHANGED <<hook, conformVars, runVars>>

\* the compiler evaluates a call of rgba
CallRgba ==
    /\ hook.fn = "rgba"
    /\ rendered = NotCalled
    /\ rendered' = rgba(hook.r, hook.g, hook.b, hook.a)
    /\ UNCHANGED <<hook, conformVars, runVars>>

(***************************************************************************)
(* compile_to_css, compile_to_css_and_save, the watch-mode handler, main.  *)
(* A path that holds no text holds a marker no text equals.                *)
(***************************************************************************)
Missing == <<"Missing">>

Unreadable == <<"Unreadable">>

Absent == <<"Absent">>

\* the exit status is <<>> while the process runs and <<status>> afterwards
NotExited == <<>>

\* one stylesheet the compiler accepts, one that needs the conformers, one
\* with unbalanced braces, and the destination's content before the run
good_scss == <<"a", "{", "}">>

not_scss == <<"b", ":", "!", "c", "{", "}">>

unbalanced_scss == <<"a", "{">>

old_css == <<"o", "l", "d">>

InputTexts == {good_scss, not_scss, unbalanced_scss}

\* the number of c in s
RECURSIVE Count(_, _)
Count(s, c) ==
    IF s = <<>> THEN 0
    ELSE (IF Head(s) = c THEN 1 ELSE 0) + Count(Tail(s), c)

\* sass.compile(string=...), the external compiler: raises sass.CompileError on
\* unbalanced braces and otherwise returns the stylesheet
sass_compile(string) ==
    IF Count(string, "{") = Count(string, "}")
    THEN [ok |-> TRUE, css |-> string]
    ELSE [ok |-> FALSE, css |-> <<>>]

\* args.watch and whether args.output is given
Args == [watch : BOOLEAN, output : {"none", "file"}]

\* open(dest_file, 'w') succeeds, or raises FileNotFoundError (no such
\* directory) or PermissionError
DestDirs == {"ok", "missing", "readonly"}

NoArgs == [watch |-> FALSE, output |-> "none"]

DebugCompiling == <<"DEBUG", "Compiling", "input_file">>

ErrorFailed == <<"ERROR", "Failed to compile", "input_file">>

InfoCreated == <<"INFO", "Created CSS file", "dest_file">>

InfoWatching == <<"INFO", "qtsass is watching", "input_file">>

\* compile_to_css(input_file): the exception open() raises, or the stylesheet
\* returned and whether sass.CompileError was caught on the way
compile_to_css ==
    IF inputFile = Missing
    THEN [raised |-> "FileNotFoundError", stylesheet |-> <<>>, failed |-> FALSE]
    ELSE IF inputFile = Unreadable
    THEN [raised |-> "PermissionError", stylesheet |-> <<>>, failed |-> FALSE]
    ELSE LET compiled == sass_compile(css_conform(inputFile)) IN
         IF compiled.ok
         THEN [raised |-> "none", stylesheet |-> qt_conform(compiled.css),
               failed |-> FALSE]
         ELSE [raised |-> "none", stylesheet |-> <<>>, failed |-> TRUE]

\* the body of compile_to_css_and_save after its call of compile_to_css, whose
\* outcome is c: the exception that leaves the call ("none" when it returns)
\* and the destination file, the standard output and the log after it
SaveStylesheet(c) ==
    LET opened == IF c.raised # "none" THEN c.raised
                  ELSE IF args.output = "none" THEN "none"
                  ELSE IF destDir = "missing" THEN "FileNotFoundError"
                  ELSE IF destDir = "readonly" THEN "PermissionError"
                  ELSE "none"
        written == opened = "none" /\ args.output = "file"
        printed == opened = "none" /\ args.output = "none"
    IN  [raised |-> opened,
         failed |-> c.failed,
         destFile |-> IF written THEN c.stylesheet ELSE destFile,
         stdout |-> IF printed THEN Append(stdout, c.stylesheet) ELSE stdout,
         log |-> log \cup {DebugCompiling}
                     \cup (IF c.failed THEN {ErrorFailed} ELSE {})
                     \cup (IF written THEN {InfoCreated} ELSE {})]

\* compile_to_css_and_save(input_file, dest_file)
compile_to_css_and_save == SaveStylesheet(compile_to_css)

MaxRetries == 10

MaxEvents == 2

\* main(): the initial compile_to_css_and_save; an exception ends the process
\* with a traceback; otherwise --watch logs, starts the observer and sleeps,
\* and a single-shot run returns
MainCompile ==
    \E saved \in {compile_to_css_and_save} :
        /\ pc = "start"
        /\ destFile' = saved.destFile
        /\ stdout' = saved.stdout
        /\ IF saved.raised # "none"
           THEN log' = saved.log /\ pc' = "exited" /\ exitCode' = <<1>>
           ELSE IF args.watch
           THEN /\ log' = saved.log \cup {InfoWatching}
                /\ pc' = "watching"
                /\ UNCHANGED exitCode
           ELSE log' = saved.log /\ pc' = "exited" /\ exitCode' = <<0>>
        /\ UNCHANGED <<inputFile, handler, recompile_i, args, destDir, events,
                       hook, rendered, conformVars>>

\* on_modified / on_created with a relevant event: _recompile starts, i = 0
ChangeEvent ==
    /\ pc = "watching"
    /\ handler = "idle"
    /\ events < MaxEvents
    /\ events' = events + 1
    /\ handler' = "recompiling"
    /\ recompile_i' = 0
    /\ UNCHANGED <<inputFile, destFile, stdout, log, pc, exitCode, args,
                   destDir, hook, rendered, conformVars>>

\* one turn of the loop of _recompile: sleep, compile_to_css_and_save, then
\* success, or i += 1 on FileNotFoundError; any other exception leaves the
\* handler and ends the observer thread
RecompileAttempt ==
    \E saved \in {compile_to_css_and_save} :
        /\ handler = "recompiling"
        /\ recompile_i < MaxRetries
        /\ destFile' = saved.destFile
        /\ stdout' = saved.stdout
        /\ log' = saved.log
        /\ IF saved.raised = "none"
           THEN handler' = "idle" /\ UNCHANGED recompile_i
           ELSE IF saved.raised = "FileNotFoundError"
           THEN /\ recompile_i' = recompile_i + 1
                /\ handler' = IF recompile_i + 1 < MaxRetries THEN "recompiling"
                              ELSE "idle"
           ELSE handler' = "crashed" /\ UNCHANGED recompile_i
        /\ UNCHANGED <<inputFile, pc, exitCode, args, destDir, events, hook,
                       rendered, conformVars>>

\* an editor saves, removes or locks the input file while the process watches
EditorWrites ==
    /\ pc = "watching"
    /\ \E f \in InputTexts \cup {Missing, Unreadable} :
          /\ f # inputFile
          /\ inputFile' = f
    /\ UNCHANGED <<destFile, stdout, log, pc, exitCode, handler, recompile_i,
                   args, destDir, events, hook, rendered, conformVars>>

\* the directory of the output path is removed, locked or restored while the
\* process watches
DestDirChanges ==
    /\ pc = "watching"
    /\ args.output = "file"
    /\ \E d \in DestDirs :
          /\ d # destDir
          /\ destDir' = d
    /\ UNCHANGED <<inputFile, destFile, stdout, log, pc, exitCode, handler,
                   recompile_i, args, events, hook, rendered, conformVars>>

\* KeyboardInterrupt in the sleep loop of main(): observer.stop()
KeyboardInterrupt ==
    /\ pc = "watching"
    /\ pc' = "stopping"
    /\ UNCHANGED <<inputFile, destFile, stdout, log, exitCode, handler,
                   recompile_i, args, destDir, events, hook, rendered,
                   conformVars>>

\* observer.join() returns once the handler is not running; main() returns
ObserverJoined ==
    /\ pc = "stopping"
    /\ handler # "recompiling"
    /\ pc' = "exited"
    /\ exitCode' = <<0>>
    /\ UNCHANGED <<inputFile, destFile, stdout, log, handler, recompile_i,
                   args, destDir, events, hook, rendered, conformVars>>

(***************************************************************************)
(* The specifications: each exercises one part and leaves the others in    *)
(* their state before any call.                                            *)
(***************************************************************************)
NoConformCall == src = <<>> /\ cur = <<>> /\ ops = <<>>

NoHookCall == hook = NoCall /\ rendered = NotCalled

NoRun ==
    /\ inputFile = Missing
    /\ destFile = Absent
    /\ stdout = <<>>
    /\ log = {}
    /\ pc = "none"
    /\ exitCode = NotExited
    /\ handler = "idle"
    /\ recompile_i = 0
    /\ args = NoArgs
    /\ destDir = "ok"
    /\ events = 0

ConformInit ==
    /\ src \in Texts
    /\ cur = src
    /\ ops = <<>>
    /\ NoHookCall
    /\ NoRun

ConformNext ==
    \/ NotToCss
    \/ NestedToCss
    \/ CssConform
    \/ NotToQss
    \/ NestedToQss
    \/ QtConform

ConformSpec == ConformInit /\ [][ConformNext]_vars

HookCalls ==
    [fn : {"qlineargradient"}, x1 : Coordinates, y1 : Coordinates,
     x2 : Coordinates, y2 : Coordinates, stops : StopLists]
    \cup
    {[fn |-> "rgba", r |-> w[1], g |-> w[2], b |-> w[3], a |-> w[4]] :
        w \in UNION {{<<SassNumberArg(r), SassNumberArg(g), SassNumberArg(b),
                        SassNumberArg(a)>>,
                      <<FloatArg(r), FloatArg(g), FloatArg(b), FloatArg(a)>>,
                      <<IntArg(r), IntArg(g), IntArg(b), FloatArg(a)>>} :
                     r \in Channels, g \in Channels, b \in Channels,
                     a \in Alphas}}

HookInit ==
    /\ hook \in HookCalls
    /\ rendered = NotCalled
    /\ NoConformCall
    /\ NoRun

HookNext ==
    \/ CallQLinearGradient
    \/ CallRgba

HookSpec == HookInit /\ [][HookNext]_vars

RunInit ==
    /\ args \in Args
    /\ destDir \in DestDirs
    /\ NoHookCall
    /\ inputFile \in InputTexts \cup {Missing, Unreadable}
    /\ destFile \in {Absent, old_css}
    /\ stdout = <<>>
    /\ log = {}
    /\ pc = "start"
    /\ exitCode = NotExited
    /\ handler = "idle"
    /\ recompile_i = 0
    /\ events = 0
    /\ NoConformCall

RunNext ==
    \/ MainCompile
    \/ ChangeEvent
    \/ RecompileAttempt
    \/ EditorWrites
    \/ DestDirChanges
    \/ KeyboardInterrupt
    \/ ObserverJoined

RunSpec == RunInit /\ [][RunNext]_vars

(***************************************************************************)
(* Properties of the conformers.                                           *)
(***************************************************************************)

\* out is s with every occurrence of old replaced by new and nothing else
\* changed, stated position by position (old does not overlap itself): the
\* characters outside the occurrences keep their order and are shifted by the
\* length difference of the occurrences before them
ReplacedEverywhere(s, out, old, new) ==
    LET occ == {i \in 1..Len(s) : StartsWithAt(s, i, old)}
        d == Len(new) - Len(old)
        Inside(i) == \E j \in occ : j <= i /\ i < j + Len(old)
        Pos(i) == i + d * Cardinality({j \in occ : j < i})
    IN  /\ Len(out) = Len(s) + d * Cardinality(occ)
        /\ \A i \in 1..Len(s) : ~Inside(i) => out[Pos(i)] = s[i]
        /\ \A j \in occ : StartsWithAt(out, Pos(j), new)

\* C3: NotConformer.to_css replaces every ":!" by ":_qnot_" and changes nothing
\* else (a "!" not preceded by ":" stays, a text without ":!" is returned
\* unchanged); NotConformer.to_qss replaces every ":_qnot_" by ":!" and changes
\* nothing else.
C3_NotConformerFrame ==
    /\ ops = <<"NotConformer.to_css">> =>
          /\ ReplacedEverywhere(src, cur, QSS_NOT, CSS_NOT)
          /\ (~Contains(src, QSS_NOT) => cur = src)
    /\ ops = <<"NotConformer.to_qss">> =>
          /\ ReplacedEverywhere(src, cur, CSS_NOT, QSS_NOT)
          /\ (~Contains(src, CSS_NOT) => cur = src)

\* C3 witness: to_css has run on a text holding both a ":!" and a "!" that no
\* ":" precedes
C3_Witness ==
    /\ ops = <<"NotConformer.to_css">>
    /\ Contains(src, QSS_NOT)
    /\ \E i \in 1..Len(src) :
          src[i] = "!" /\ (i = 1 \/ src[i - 1] # ":")
    /\ cur # src

\* the text is "::A:B", one pseudo-element A and exactly one pseudo-state B
IsElementWithOneState(s) ==
    LET e1 == IdentRunEnd(s, 3) IN
    /\ StartsWithAt(s, 1, <<":", ":">>)
    /\ e1 > 3
    /\ e1 <= Len(s)
    /\ s[e1] = ":"
    /\ IdentRunEnd(s, e1 + 1) > e1 + 1
    /\ IdentRunEnd(s, e1 + 1) = Len(s) + 1

ElementOf(s) == SubSeq(s, 3, IdentRunEnd(s, 3) - 1)

StateOf(s) == SubSeq(s, IdentRunEnd(s, 3) + 1, Len(s))

IsPrefix(p, s) == Len(p) <= Len(s) /\ SubSeq(s, 1, Len(p)) = p

\* C4 as stated: NestedSelectorsConformer returns a "::A:B" text unchanged in
\* both directions.
C4_OneStateUnaffected ==
    (/\ IsElementWithOneState(src)
     /\ ops \in {<<"NestedSelectorsConformer.to_css">>,
                 <<"NestedSelectorsConformer.to_qss">>})
    => cur = src

\* C4 amended: to_css rewrites a "::A:B" text (chains of one or more
\* single-colon segments are rewritten): to "::A_qcolon_B", or, when B is a
\* prefix of A, to ":_qcolon_A:B", the first textual occurrence of ":B" being
\* the one replaced; to_qss returns a "::A:B" text without "_qcolon_"
\* unchanged.
C4_OneStateRewritten ==
    /\ (/\ IsElementWithOneState(src)
        /\ ops = <<"NestedSelectorsConformer.to_css">>)
       => cur = IF IsPrefix(StateOf(src), ElementOf(src))
                THEN <<":">> \o QCOLON \o ElementOf(src) \o <<":">>
                     \o StateOf(src)
                ELSE <<":", ":">> \o ElementOf(src) \o QCOLON
                     \o StateOf(src)
    /\ (/\ IsElementWithOneState(src)
        /\ ~Contains(src, QCOLON)
        /\ ops = <<"NestedSelectorsConformer.to_qss">>)
       => cur = src

\* C4 witness: to_css has run on "::item:hover"
C4_Witness ==
    /\ src = item_hover_str
    /\ ops = <<"NestedSelectorsConformer.to_css">>
    /\ cur # src

\* C1: the whole chain is round-trip safe on a text without placeholder
\* tokens: qt_conform(css_conform(T)) = T.
C1_ChainRoundTrip ==
    (/\ ops = <<"css_conform", "qt_conform">>
     /\ ~Contains(src, QNOT)
     /\ ~Contains(src, QCOLON))
    => cur = src

\* C2: each conformer alone is round-trip safe on a text without its
\* placeholder: C.to_qss(C.to_css(T)) = T.
C2_ConformerRoundTrip ==
    /\ (/\ ops = <<"NotConformer.to_css", "NotConformer.to_qss">>
        /\ ~Contains(src, CSS_NOT))
       => cur = src
    /\ (/\ ops = <<"NestedSelectorsConformer.to_css",
                   "NestedSelectorsConformer.to_qss">>
        /\ ~Contains(src, QCOLON))
       => cur = src

\* C5: the forward pass maps the keyword-form gradient calls to the
\* positional calls of the tests.
C5_GradientForward ==
    ops = <<"css_conform">> =>
        /\ src = qss_nostops_str => cur = css_nostops_str
        /\ src = qss_singleline_str => cur = css_gradient_str

\* the index lies in the captured colon-identifier suffix of a match
InMatchedSuffix(s, i) ==
    LET spans == MatchSpans(s, 1) IN
    \E k \in 1..Len(spans) : spans[k].gstart <= i /\ i < spans[k].end

\* s with exactly the colons of the matched suffixes replaced
SuffixColonsReplaced(s) ==
    Concat([i \in 1..Len(s) |->
               IF s[i] = ":" /\ InMatchedSuffix(s, i) THEN QCOLON
               ELSE <<s[i]>>])

\* C9: NestedSelectorsConformer.to_css replaces every colon inside the suffix
\* of a matched run and no other colon; every "::" survives.
C9_OnlyMatchedSuffix ==
    ops = <<"NestedSelectorsConformer.to_css">> =>
        cur = SuffixColonsReplaced(src)

(***************************************************************************)
(* Properties of the render hooks.                                         *)
(***************************************************************************)
STOP_KEYWORD == <<"s", "t", "o", "p", ":", " ">>

\* one stop as the documented output shows it: "stop: P C"
StopText(stop) ==
    STOP_KEYWORD \o FormatFloat(stop.pos) \o <<" ">>
    \o rgba_from_color(stop.color)

\* the stops in input order, consecutive stops separated by ", "
RECURSIVE StopsJoined(_)
StopsJoined(stops) ==
    IF stops = <<>> THEN <<>>
    ELSE IF Len(stops) = 1 THEN StopText(stops[1])
    ELSE StopText(stops[1]) \o <<",", " ">> \o StopsJoined(Tail(stops))

\* the documented literal for a call
GradientLiteral(h) ==
    GRAD_X1 \o FormatFloat(h.x1) \o GRAD_Y1 \o FormatFloat(h.y1)
    \o GRAD_X2 \o FormatFloat(h.x2) \o GRAD_Y2 \o FormatFloat(h.y2)
    \o <<" ">> \o StopsJoined(h.stops) \o <<")">>

WithoutSpaces(s) == SelectSeq(s, LAMBDA c : c # " ")

\* C10: the gradient hook returns
\* qlineargradient(x1:X1, y1:Y1, x2:X2, y2:Y2 stop: P1 C1, stop: P2 C2, ...),
\* the stops in input order, separated by commas, with no trailing separator
\* (compared up to the number of spaces).
C10_StopsCommaSeparated ==
    (hook.fn = "qlineargradient" /\ rendered # NotCalled)
    => WithoutSpaces(rendered) = WithoutSpaces(GradientLiteral(hook))

(***************************************************************************)
(* Properties of the run.                                                  *)
(***************************************************************************)

\* a compile-and-save step in which the compiler rejects the conformed input
CompilerFails(step) ==
    /\ step
    /\ compile_to_css.raised = "none"
    /\ compile_to_css.failed

\* C6: when the compiler fails, compile-and-save emits no output: the
\* destination file is left as it was, nothing is printed, and a failure
\* naming the input path is logged.
C6_NoOutputOnCompilerFailure ==
    [][CompilerFails(MainCompile \/ RecompileAttempt) =>
          /\ destFile' = destFile
          /\ stdout' = stdout
          /\ ErrorFailed \in log']_vars

\* C7: a single-shot run whose compile fails logs the failure and exits
\* non-zero; in watch mode a failed recompile is logged and the handler goes
\* back to waiting for change events.
C7_FailureExitStatus ==
    [][/\ (CompilerFails(MainCompile) /\ ~args.watch) =>
             /\ ErrorFailed \in log'
             /\ pc' = "exited"
             /\ exitCode' # <<0>>
       /\ (CompilerFails(RecompileAttempt) /\ destDir = "ok") =>
             /\ ErrorFailed \in log'
             /\ handler' = "idle"
             /\ pc' = pc]_vars

\* C8: the retry loop makes at most 10 attempts, stops at the first attempt
\* that completes, retries only when the input file is missing or
\* unreadable, gives up after 10 failures, and never retries a failure to
\* open the destination file.
C8_RetryOnlyInputFile ==
    [][RecompileAttempt =>
          /\ recompile_i < MaxRetries
          /\ recompile_i' <= MaxRetries
          /\ (compile_to_css_and_save.raised = "none" => handler' = "idle")
          /\ (recompile_i' = MaxRetries => handler' # "recompiling")
          /\ (handler' = "recompiling" /\ recompile_i' = recompile_i + 1)
                => inputFile \in {Missing, Unreadable}]_vars

====
